---------------------------- MODULE Spec2Model ----------------------------
(***************************************************************************)
(* A model of server.py: the acceptor loop of main(), the bounded          *)
(* connection_queue, the pool of worker() threads and the per-connection   *)
(* request loop of handle_connection() with serve_get_request(),           *)
(* serve_post_request() and send_error().                                  *)
(*                                                                         *)
(* One step of the acceptor is accept() + put_nowait() (+ the rejection    *)
(* path); one step of a worker is either connection_queue.get() or one     *)
(* iteration of the `while request_count < 100` loop, including the        *)
(* close()/task_done() that follow a break.  The steps of one connection   *)
(* touch only that connection, so this granularity loses no interleaving.  *)
(***************************************************************************)
EXTENDS Naturals, Sequences, FiniteSets, TLC

(* ------------------------------ bounds -------------------------------- *)
\* number of clients that connect during a run of Spec
NumConns == 3
\* server.py:15 MAX_THREADS (10 by default, argv[3]); scaled down
MAX_THREADS == 2
\* server.py:16 MAX_QUEUE_SIZE (50); scaled down
MAX_QUEUE_SIZE == 1
\* number of non-empty reads each client of Spec supplies
MaxReqs == 1
\* number of non-empty reads the client of SpecConn supplies
MaxConnReqs == 2
\* seconds the system clock advances during a run of SpecUpload
MaxClock == 1

(* ------------------------- program constants -------------------------- *)
\* server.py:101 `while request_count < 100`, server.py:125 `>= 100`
MAX_REQUESTS == 100

HOST_PORT == "127.0.0.1:8080"

Conns == 1..NumConns
Workers == 1..MAX_THREADS
NoConn == 0

(* --------------------------- the environment -------------------------- *)
\* What one recv() on a connection yields, and how the peer and the
\* Resource Provider behave while the request is served.
\*   kind       "data" bytes that decode, "empty" (b''), "timeout"
\*              (socket.timeout), "reset" (another OSError from recv),
\*              "undecodable" (bytes that are not UTF-8)
\*   sep        the data contains "\r\n\r\n"
\*   line       the request line, as its space-separated tokens
\*   connection, host, ctype   header values, Absent when the header is missing
\*   json       the body parses as JSON
\*   persist    open()/json.dump() of the upload succeeds
\*   net        what sendall() does on this connection during the iteration
\*   rand       the four characters random.choices() draws for an upload
Absent == "<absent>"
Nets == {"ok", "timeout", "broken"}
Versions == {"HTTP/1.1", "HTTP/1.0", "HTTP/2.0"}
ConnectionValues == {Absent, "close", "Close", "keep-alive"}
HostValues == {Absent, HOST_PORT, "evil.example:80"}
Paths == {"/", "/index.html", "/notes.txt", "/missing.html", "/doc.pdf",
          "/missing.pdf", "/../secret.txt", "/uploads"}

\* the resources directory: regular files and directories below it
Files == {"/index.html", "/notes.txt", "/doc.pdf"}
Dirs == {"/uploads"}
\* values of random.choices(ascii_lowercase + digits, k=4)
RandomIds == {"a1b2", "c3d4"}

DefaultRead ==
    [kind |-> "data", sep |-> TRUE, line |-> <<"GET", "/", "HTTP/1.1">>,
     connection |-> Absent, host |-> HOST_PORT, ctype |-> Absent,
     json |-> TRUE, persist |-> TRUE, net |-> "ok", rand |-> "a1b2"]

\* reads that end the loop before anything is parsed
SilentReads == {[DefaultRead EXCEPT !.kind = k] : k \in {"empty", "timeout"}}
BrokenReads ==
    {[DefaultRead EXCEPT !.kind = k, !.net = n] :
        k \in {"reset", "undecodable"}, n \in {"ok", "broken"}}
\* data that does not parse: no separator, or a short request line
MalformedReads ==
    {[DefaultRead EXCEPT !.sep = FALSE, !.net = n] : n \in {"ok", "broken"}}
    \cup {[DefaultRead EXCEPT !.line = l, !.net = n] :
            l \in {<<"GET">>, <<"GET", "/">>}, n \in {"ok", "broken"}}
\* the fields of a parsed request that a route reads
GetReads ==
    {[DefaultRead EXCEPT !.line = <<"GET", p, "HTTP/1.1">>] : p \in Paths}
PostReads ==
    {[DefaultRead EXCEPT !.line = <<"POST", "/upload", "HTTP/1.1">>,
                         !.ctype = "text/plain"],
     [DefaultRead EXCEPT !.line = <<"POST", "/upload", "HTTP/1.1">>,
                         !.ctype = Absent],
     [DefaultRead EXCEPT !.line = <<"POST", "/upload", "HTTP/1.1">>,
                         !.ctype = "application/json; charset=utf-8"],
     [DefaultRead EXCEPT !.line = <<"POST", "/upload", "HTTP/1.1">>,
                         !.ctype = "application/json", !.json = FALSE],
     [DefaultRead EXCEPT !.line = <<"POST", "/upload", "HTTP/1.1">>,
                         !.ctype = "application/json", !.persist = FALSE],
     [DefaultRead EXCEPT !.line = <<"POST", "/upload", "HTTP/1.1">>,
                         !.ctype = "application/json"]}
OtherReads ==
    {[DefaultRead EXCEPT !.line = <<"PUT", "/index.html", "HTTP/1.1">>]}
RoutedReads == GetReads \cup PostReads \cup OtherReads
HostReads ==
    {[DefaultRead EXCEPT !.line = <<m, "/index.html", "HTTP/1.1">>,
                         !.host = h] :
        m \in {"GET", "POST", "PUT"}, h \in HostValues \ {HOST_PORT}}
ParsedReads ==
    {[r EXCEPT !.line = <<r.line[1], r.line[2], v>>, !.connection = c,
               !.net = n] :
        r \in RoutedReads \cup HostReads, v \in Versions,
        c \in ConnectionValues, n \in Nets}

\* every read SpecConn's client may produce
AllReads == SilentReads \cup BrokenReads \cup MalformedReads \cup ParsedReads

NoRead == [kind |-> "none"]


(* ------------------------- string operations -------------------------- *)
\* str.lower() on the header values of the alphabet
Lower(s) == IF s = "Close" THEN "close" ELSE s
\* str.endswith on the versions of the alphabet
EndsWith(s, suffix) ==
    \/ suffix = "/1.1" /\ s = "HTTP/1.1"
    \/ suffix = "/1.0" /\ s = "HTTP/1.0"
\* str.startswith('application/json') on the content types of the alphabet
StartsWithJson(s) ==
    s \in {"application/json", "application/json; charset=utf-8"}
\* a traversal check that never fires
HasDotDot_never(path) == FALSE

\* '..' in path
HasDotDot(path) == path = "/../secret.txt"
\* str.endswith on the paths of the alphabet
Extension(path) ==
    CASE path \in {"/index.html", "/missing.html"} -> ".html"
      [] path = "/notes.txt" -> ".txt"
      [] path \in {"/doc.pdf", "/missing.pdf"} -> ".pdf"
      [] OTHER -> ""
\* dict.get(key, default) on a header of the request
HeaderGet(value, default) == IF value = Absent THEN default ELSE value

(* ----------------------------- responses ------------------------------ *)
\* the system clock in seconds, as time.strftime("%Y%m%d_%H%M%S") reads it
VARIABLE now

\* The outcome of client_socket.sendall(): the exception it raises.
sendall(net) ==
    CASE net = "ok" -> "none"
      [] net = "timeout" -> "timeout"
      [] OTHER -> "error"

\* The Connection headers every response ends with.
ConnectionHeaders(keep_alive) ==
    IF keep_alive THEN {"Connection", "Keep-Alive"} ELSE {"Connection"}

Response(code, headers, keep_alive, net) ==
    [code |-> code,
     headers |-> headers \cup ConnectionHeaders(keep_alive),
     connection |-> IF keep_alive THEN "keep-alive" ELSE "close",
     sent |-> sendall(net) = "none"]

\* send_error forgetting its extra_headers
send_error_no_extra(status_code, keep_alive, extra_headers, net) ==
    [resps |-> <<Response(status_code, {"Content-Type", "Content-Length"},
                          keep_alive, net)>>,
     exc |-> sendall(net)]

\* send_error: the response it writes and the exception sendall raises.
send_error(status_code, keep_alive, extra_headers, net) ==
    [resps |-> <<Response(status_code,
                          {"Content-Type", "Content-Length"} \cup extra_headers,
                          keep_alive, net)>>,
     exc |-> sendall(net)]

\* open(filepath, 'rb') in the resources directory
OpenResource(path) ==
    CASE path \in Files -> "content"
      [] path \in Dirs -> "IsADirectoryError"
      [] OTHER -> "FileNotFoundError"

\* serve_get_request: the responses written, the exception that leaves the
\* function, and whether the file was opened.
serve_get_request(path0, keep_alive, net) ==
    LET path == IF path0 = "/" THEN "/index.html" ELSE path0 IN
    IF HasDotDot(path)
    THEN send_error(403, FALSE, {}, net) @@ [opened |-> FALSE]
    ELSE LET f == OpenResource(path) IN
         CASE f = "FileNotFoundError" ->
                send_error(404, FALSE, {}, net) @@ [opened |-> TRUE]
           [] f = "IsADirectoryError" ->
                [resps |-> <<>>, exc |-> "error", opened |-> TRUE]
           [] OTHER ->
                IF Extension(path) = ".html"
                THEN [resps |-> <<Response(200,
                          {"Content-Type", "Content-Length", "Date", "Server"},
                          keep_alive, net)>>,
                      exc |-> sendall(net), opened |-> TRUE]
                ELSE IF Extension(path) \in {".txt", ".png", ".jpg", ".jpeg"}
                THEN [resps |-> <<Response(200,
                          {"Content-Type", "Content-Length", "Date", "Server",
                           "Content-Disposition"},
                          keep_alive, net)>>,
                      exc |-> sendall(net), opened |-> TRUE]
                ELSE send_error(415, FALSE, {}, net) @@ [opened |-> TRUE]

\* no upload was written
NoFile == <<>>

\* Lines 235-249: the name of the upload, "/uploads/upload_{timestamp}_
\* {random_id}.json", as its parts.
upload_filepath(timestamp, random_id) ==
    <<"/uploads/upload_", timestamp, "_", random_id, ".json">>

\* serve_post_request: the responses written, the exception that leaves the
\* function, whether the upload was written to the uploads directory, and
\* the filepath it was written to.
serve_post_request(ctype, json, persist, random_id, keep_alive, net) ==
    IF ~StartsWithJson(HeaderGet(ctype, ""))
    THEN send_error(415, FALSE, {}, net)
         @@ [stored |-> FALSE, filepath |-> NoFile]
    ELSE IF ~json
    THEN send_error(400, FALSE, {}, net)
         @@ [stored |-> FALSE, filepath |-> NoFile]
    ELSE LET filepath == upload_filepath(now, random_id)
             created == Response(201,
                 {"Content-Type", "Content-Length", "Date", "Server"},
                 keep_alive, net)
             \* the try block of lines 240-269: open/json.dump, then sendall
             tried == IF persist THEN <<created>> ELSE <<>>
             raised == ~persist \/ sendall(net) # "none"
             failed == send_error(500, FALSE, {}, net)
         IN  IF raised
             THEN [resps |-> tried \o failed.resps, exc |-> failed.exc,
                   stored |-> persist,
                   filepath |-> IF persist THEN filepath ELSE NoFile]
             ELSE [resps |-> tried, exc |-> "none", stored |-> TRUE,
                   filepath |-> filepath]


(* ------------------------- handle_connection -------------------------- *)
\* the keep-alive decision treating HTTP/1.1 like HTTP/1.0
should_keep_alive_explicit(http_version, connection, request_count) ==
    LET connection_header == Lower(HeaderGet(connection, ""))
        wanted == /\ EndsWith(http_version, "/1.1") \/ EndsWith(http_version, "/1.0")
                  /\ connection_header = "keep-alive"
    IN  IF request_count >= MAX_REQUESTS THEN FALSE ELSE wanted

\* the keep-alive decision with the cap one request late
should_keep_alive_late(http_version, connection, request_count) ==
    LET connection_header == Lower(HeaderGet(connection, ""))
        wanted == \/ EndsWith(http_version, "/1.1") /\ connection_header # "close"
                  \/ EndsWith(http_version, "/1.0") /\ connection_header = "keep-alive"
    IN  IF request_count > MAX_REQUESTS THEN FALSE ELSE wanted

\* the keep-alive decision without the cap of line 125
should_keep_alive_uncapped(http_version, connection, request_count) ==
    \/ EndsWith(http_version, "/1.1") /\ Lower(HeaderGet(connection, "")) # "close"
    \/ EndsWith(http_version, "/1.0") /\ Lower(HeaderGet(connection, "")) = "keep-alive"

\* Lines 118-126: the keep-alive decision, request_count already incremented.
should_keep_alive(http_version, connection, request_count) ==
    LET connection_header == Lower(HeaderGet(connection, ""))
        wanted == \/ EndsWith(http_version, "/1.1") /\ connection_header # "close"
                  \/ EndsWith(http_version, "/1.0") /\ connection_header = "keep-alive"
    IN  IF request_count >= MAX_REQUESTS THEN FALSE ELSE wanted

\* What one iteration has done so far.
\*   resps    the responses written, in order (sent: sendall returned)
\*   exc      the exception being raised: "none", "timeout" (socket.timeout)
\*            or "error" (any other Exception)
\*   keep     should_keep_alive
\*   handler  the route that ran: "none", "get", "post" or "405"
\*   opened   serve_get_request opened the file
\*   stored   serve_post_request wrote the upload
\*   filepath the file serve_post_request wrote, or NoFile
\*   flow     "continue" (back to the while test) or "break"
NoProgress ==
    [resps |-> <<>>, exc |-> "none", keep |-> FALSE, handler |-> "none",
     opened |-> FALSE, stored |-> FALSE, filepath |-> NoFile,
     flow |-> "break"]

\* the Host checks without the comparison to the server's address
host_check_presence(host) == IF host = Absent THEN 400 ELSE 0

\* Lines 128-137: the Host checks.  The result is the status to answer
\* with, or 0 when the request goes on to the method dispatch.
host_check(host) ==
    IF host = Absent THEN 400
    ELSE IF host # HOST_PORT THEN 403
    ELSE 0

\* Lines 112-149: the body of the inner try, after request_count += 1.
process_request(r, request_count) ==
    IF ~r.sep \/ Len(r.line) # 3
    THEN [NoProgress EXCEPT !.exc = "error"]    \* ValueError: cannot unpack
    ELSE
    LET method == r.line[1]
        path == r.line[2]
        http_version == r.line[3]
        keep == should_keep_alive(http_version, r.connection, request_count)
        flow == IF keep THEN "continue" ELSE "break"
        started == [NoProgress EXCEPT !.keep = keep, !.flow = flow]
        refused == host_check(r.host)
    IN  IF refused # 0
        THEN LET e == send_error(refused, keep, {}, r.net)
             IN  [started EXCEPT !.resps = e.resps, !.exc = e.exc]
        ELSE IF method = "GET"
        THEN LET g == serve_get_request(path, keep, r.net)
             IN  [started EXCEPT !.resps = g.resps, !.exc = g.exc,
                                 !.handler = "get", !.opened = g.opened]
        ELSE IF method = "POST"
        THEN LET u == serve_post_request(r.ctype, r.json, r.persist, r.rand,
                                         keep, r.net)
             IN  [started EXCEPT !.resps = u.resps, !.exc = u.exc,
                                 !.handler = "post", !.stored = u.stored,
                                 !.filepath = u.filepath]
        ELSE LET e == send_error(405, keep, {}, r.net)
             IN  [started EXCEPT !.resps = e.resps, !.exc = e.exc,
                                 !.handler = "405"]

\* except clauses answering socket.timeout like any other exception
inner_except_timeout_500(p, net) ==
    IF p.exc = "none" THEN p @@ [raised |-> "none"]
    ELSE LET e == send_error(500, FALSE, {}, net)
         IN  [p EXCEPT !.resps = p.resps \o e.resps, !.flow = "break"]
             @@ [raised |-> e.exc]

\* Lines 151-158: the except clauses of the inner try.  `raised` is the
\* exception that leaves them, towards the outer try of line 100.
inner_except(p, net) ==
    IF p.exc = "none" THEN p @@ [raised |-> "none"]
    ELSE IF p.exc = "timeout"
    THEN [p EXCEPT !.flow = "break"] @@ [raised |-> "none"]
    ELSE LET e == send_error(500, FALSE, {}, net)
         IN  [p EXCEPT !.resps = p.resps \o e.resps, !.flow = "break"]
             @@ [raised |-> e.exc]

\* Lines 160-162: `except Exception` of the outer try catches whatever the
\* request loop raises.
outer_except(raised) == raised \in {"none", "timeout", "error"}

\* Lines 101-164: one iteration of the request loop on a connection whose
\* recv() yields r.  count is request_count after it; next is "read" when
\* the loop goes round and "closed" when it ends and the finally clause
\* closes the socket; uncaught is TRUE when an exception leaves
\* handle_connection.
handle_connection(r, request_count) ==
    LET i == CASE r.kind = "timeout" ->
                    inner_except([NoProgress EXCEPT !.exc = "timeout"], r.net)
               [] r.kind = "empty" ->
                    inner_except(NoProgress, r.net)
               [] r.kind \in {"reset", "undecodable"} ->
                    inner_except([NoProgress EXCEPT !.exc = "error"], r.net)
               [] OTHER ->
                    inner_except(process_request(r, request_count + 1), r.net)
        count == IF r.kind = "data" THEN request_count + 1 ELSE request_count
        again == i.flow = "continue" /\ count < MAX_REQUESTS
    IN  i @@ [count |-> count,
              next |-> IF again THEN "read" ELSE "closed",
              uncaught |-> ~outer_except(i.raised)]

NoOutcome ==
    NoProgress @@ [raised |-> "none", count |-> 0, next |-> "read",
                   uncaught |-> FALSE]

(* ------------------------- connection_queue --------------------------- *)
\* put_nowait on a queue created without maxsize
put_nowait_unbounded(q, item) == [full |-> FALSE, queue |-> Append(q, item)]

\* put_nowait admitting one connection more than the capacity
put_nowait_one_more(q, item) ==
    IF Len(q) > MAX_QUEUE_SIZE
    THEN [full |-> TRUE, queue |-> q]
    ELSE [full |-> FALSE, queue |-> Append(q, item)]

\* queue.Queue(maxsize=MAX_QUEUE_SIZE).put_nowait: Full when at capacity
put_nowait(q, item) ==
    IF Len(q) >= MAX_QUEUE_SIZE
    THEN [full |-> TRUE, queue |-> q]
    ELSE [full |-> FALSE, queue |-> Append(q, item)]

\* get returning the head without removing it
get_peek(q) == [item |-> Head(q), queue |-> q]

\* queue.Queue.get on a non-empty queue: removes and returns the head
get(q) == [item |-> Head(q), queue |-> Tail(q)]

(* ------------------------------- state -------------------------------- *)
VARIABLES
    acceptor,          \* the main thread: "running" or "crashed"
    arrivals,          \* how many clients connect in this run
    accepted,          \* how many connections accept() has returned
    connection_queue,  \* the sockets waiting in the queue, oldest first
    unfinished_tasks,  \* the queue's count of put()s without task_done()
    worker_pc,         \* per worker: "get", "handling" or "exited"
    client_socket,     \* per worker: the connection it handles, or NoConn
    sock,              \* per connection: "unaccepted", "open", "closed"
                       \* (close() was called) or "reset" (process exit)
    rejected,          \* per connection: the acceptor took the Full path
    dequeues,          \* per connection: how often get() returned it
    request_count,     \* per connection: handle_connection's request_count
    budget,            \* per connection: non-empty reads the client still sends
    req,               \* per connection: the last recv() outcome
    out,               \* per connection: what the last iteration did
    uploads            \* the files in resources/uploads

vars == <<acceptor, arrivals, accepted, connection_queue, unfinished_tasks,
          worker_pc, client_socket, sock, rejected, dequeues, request_count,
          budget, req, out, uploads, now>>

InitServer ==
    /\ acceptor = "running"
    /\ accepted = 0
    /\ connection_queue = <<>>
    /\ unfinished_tasks = 0
    /\ worker_pc = [w \in Workers |-> "get"]
    /\ client_socket = [w \in Workers |-> NoConn]
    /\ sock = [c \in Conns |-> "unaccepted"]
    /\ rejected = [c \in Conns |-> FALSE]
    /\ dequeues = [c \in Conns |-> 0]
    /\ request_count = [c \in Conns |-> 0]
    /\ req = [c \in Conns |-> NoRead]
    /\ out = [c \in Conns |-> NoOutcome]
    /\ uploads = {}
    /\ now = 0

\* NumConns clients, each sending at most MaxReqs requests
Init ==
    /\ InitServer
    /\ arrivals = NumConns
    /\ budget = [c \in Conns |-> MaxReqs]

\* one client sending at most MaxConnReqs requests
InitConn ==
    /\ InitServer
    /\ arrivals = 1
    /\ budget = [c \in Conns |-> IF c = 1 THEN MaxConnReqs ELSE 0]

\* one client that keeps sending for as long as the server reads
InitCap ==
    /\ InitServer
    /\ arrivals = 1
    /\ budget = [c \in Conns |-> IF c = 1 THEN MAX_REQUESTS + 1 ELSE 0]

\* two clients uploading, each sending at most MaxConnReqs requests
InitUpload ==
    /\ InitServer
    /\ arrivals = 2
    /\ budget = [c \in Conns |-> IF c <= 2 THEN MaxConnReqs ELSE 0]

(* ------------------------------ actions ------------------------------- *)
\* main(), lines 77-92: accept a connection and put it in the queue, or
\* reject it with a 503.  The socket is blocking here (settimeout is only
\* called by handle_connection), so sendall returns or raises an OSError.
\* An exception from send_error leaves main(): __main__ only catches
\* KeyboardInterrupt, the main thread ends and with it the process, whose
\* workers are daemon threads; the kernel then releases every open socket.
Accept ==
    /\ acceptor = "running"
    /\ accepted < arrivals
    /\ LET c == accepted + 1
           p == put_nowait(connection_queue, c)
       IN  /\ accepted' = c
           /\ IF ~p.full
              THEN /\ connection_queue' = p.queue
                   /\ unfinished_tasks' = unfinished_tasks + 1
                   /\ sock' = [sock EXCEPT ![c] = "open"]
                   /\ UNCHANGED <<acceptor, rejected, out>>
              ELSE \E net \in {"ok", "broken"} :
                   LET e == send_error(503, FALSE, {"Retry-After"}, net)
                   IN  /\ rejected' = [rejected EXCEPT ![c] = TRUE]
                       /\ out' = [out EXCEPT ![c] =
                                    [NoOutcome EXCEPT !.resps = e.resps,
                                                      !.exc = e.exc,
                                                      !.next = "closed"]]
                       /\ IF e.exc = "none"
                          THEN /\ sock' = [sock EXCEPT ![c] = "closed"]
                               /\ UNCHANGED acceptor
                          ELSE /\ acceptor' = "crashed"
                               /\ sock' = [d \in Conns |->
                                            IF d = c \/ sock[d] = "open"
                                            THEN "reset" ELSE sock[d]]
                       /\ UNCHANGED <<connection_queue, unfinished_tasks>>
    /\ UNCHANGED <<arrivals, worker_pc, client_socket, dequeues,
                   request_count, budget, req, uploads, now>>

\* worker(), lines 43-54: get() returns the head of the queue; a None would
\* end the thread; handle_connection starts with request_count = 0.
Dequeue(w) ==
    /\ acceptor = "running"
    /\ worker_pc[w] = "get"
    /\ Len(connection_queue) > 0
    /\ LET g == get(connection_queue)
       IN  /\ connection_queue' = g.queue
           /\ IF g.item = NoConn
              THEN /\ worker_pc' = [worker_pc EXCEPT ![w] = "exited"]
                   /\ UNCHANGED <<client_socket, dequeues, request_count>>
              ELSE /\ worker_pc' = [worker_pc EXCEPT ![w] = "handling"]
                   /\ client_socket' = [client_socket EXCEPT ![w] = g.item]
                   /\ dequeues' = [dequeues EXCEPT ![g.item] = @ + 1]
                   /\ request_count' = [request_count EXCEPT ![g.item] = 0]
    /\ UNCHANGED <<acceptor, arrivals, accepted, unfinished_tasks, sock,
                   rejected, budget, req, out, uploads, now>>

\* handle_connection, lines 101-164, and worker(), line 57: one iteration
\* of the request loop on the worker's connection, with recv() yielding r.
\* When the loop ends the socket is closed and the worker marks the task
\* done and returns to get(); an exception leaving handle_connection would
\* end the worker thread.
Serve(w, r) ==
    /\ acceptor = "running"
    /\ worker_pc[w] = "handling"
    /\ LET c == client_socket[w]
           bytes == r.kind \in {"data", "undecodable"}
       IN  \E h \in {handle_connection(r, request_count[c])} :
           /\ bytes => budget[c] > 0
           /\ budget' = [budget EXCEPT ![c] = IF bytes THEN @ - 1 ELSE @]
           /\ request_count' = [request_count EXCEPT ![c] = h.count]
           /\ req' = [req EXCEPT ![c] = r]
           /\ out' = [out EXCEPT ![c] = h]
           /\ uploads' = IF h.stored THEN uploads \cup {h.filepath} ELSE uploads
           /\ IF h.next = "read"
              THEN UNCHANGED <<sock, client_socket, worker_pc, unfinished_tasks>>
              ELSE /\ sock' = [sock EXCEPT ![c] = "closed"]
                   /\ client_socket' = [client_socket EXCEPT ![w] = NoConn]
                   /\ IF h.uncaught
                      THEN /\ worker_pc' = [worker_pc EXCEPT ![w] = "exited"]
                           /\ UNCHANGED unfinished_tasks
                      ELSE /\ worker_pc' = [worker_pc EXCEPT ![w] = "get"]
                           /\ unfinished_tasks' = unfinished_tasks - 1
    /\ UNCHANGED <<acceptor, arrivals, accepted, connection_queue, rejected,
                   dequeues, now>>

\* a second passes on the system clock
Tick ==
    /\ acceptor = "running"
    /\ now < MaxClock
    /\ now' = now + 1
    /\ UNCHANGED <<acceptor, arrivals, accepted, connection_queue,
                   unfinished_tasks, worker_pc, client_socket, sock, rejected,
                   dequeues, request_count, budget, req, out, uploads>>

\* the reads of the runs with several clients, one for each way an
\* iteration ends: a silent close, a 500 for a request that does not
\* parse, an answered request that keeps or closes the connection, a
\* response whose write fails (and the write of the 500 after it), and an
\* upload that cannot be stored
DispatchReads ==
    {r \in SilentReads : r.kind = "empty"}
    \cup {r \in MalformedReads : ~r.sep /\ r.net = "ok"}
    \cup {r \in ParsedReads :
            /\ r.host = HOST_PORT
            /\ \/ /\ r.line = <<"GET", "/", "HTTP/1.1">>
                  /\ r.connection = Absent /\ r.net \in {"ok", "broken"}
               \/ /\ r.line = <<"GET", "/", "HTTP/1.1">>
                  /\ r.connection = "close" /\ r.net = "ok"
               \/ /\ r.line = <<"POST", "/upload", "HTTP/1.1">>
                  /\ r.connection = Absent /\ r.net = "ok"
                  /\ r.ctype = "application/json" /\ r.json /\ ~r.persist}

\* the reads of a long-lived connection: every version and Connection
\* header on the requests that are answered without an exception
CapReads ==
    SilentReads
    \cup {r \in MalformedReads : ~r.sep /\ r.net = "ok"}
    \cup {r \in ParsedReads :
            /\ r.net = "ok"
            /\ \/ /\ r.host = HOST_PORT
                  /\ <<r.line[1], r.line[2]>> \in
                        {<<"GET", "/index.html">>, <<"GET", "/missing.html">>,
                         <<"PUT", "/index.html">>}
               \/ /\ r.host = HOST_PORT
                  /\ r.line[1] = "POST"
                  /\ r.ctype = "application/json" /\ r.json /\ r.persist
               \/ /\ r.host # HOST_PORT
                  /\ r.line[1] = "GET"}

\* the reads of uploading clients: a JSON upload that is stored, with
\* every random id, keeping or closing the connection, and the end of the
\* stream
UploadReads ==
    {r \in SilentReads : r.kind = "empty"}
    \cup {[DefaultRead EXCEPT !.line = <<"POST", "/upload", "HTTP/1.1">>,
                              !.ctype = "application/json",
                              !.connection = k, !.rand = i] :
            k \in {Absent, "close"}, i \in RandomIds}

Get == \E w \in Workers : Dequeue(w)
Handle == \E w \in Workers : \E r \in DispatchReads : Serve(w, r)
HandleAny == \E w \in Workers : \E r \in AllReads : Serve(w, r)
HandleCap == \E w \in Workers : \E r \in CapReads : Serve(w, r)
HandleUpload == \E w \in Workers : \E r \in UploadReads : Serve(w, r)

Next == Accept \/ Get \/ Handle
NextConn == Accept \/ Get \/ HandleAny
NextCap == Accept \/ Get \/ HandleCap
NextUpload == Accept \/ Get \/ HandleUpload \/ Tick

\* the server with NumConns clients
Spec == Init /\ [][Next]_vars
\* one connection, every request of the alphabet
SpecConn == InitConn /\ [][NextConn]_vars
\* one connection that lasts until the server ends it
SpecCap == InitCap /\ [][NextCap]_vars
\* two uploading clients and the clock
SpecUpload == InitUpload /\ [][NextUpload]_vars


\* the scheduler runs every thread that can take a step, and every recv()
\* returns (data or, at the latest after the 30 s timeout, nothing)
FairSpec ==
    /\ Spec
    /\ WF_vars(Accept)
    /\ \A w \in Workers : WF_vars(Dequeue(w))
    /\ \A w \in Workers : WF_vars(\E r \in DispatchReads : Serve(w, r))

(* ------------------------- shorthands of claims ----------------------- *)
InQueue(c) == \E i \in 1..Len(connection_queue) : connection_queue[i] = c
HeldBy(c) == {w \in Workers : client_socket[w] = c}
Handling == {w \in Workers : worker_pc[w] = "handling"}
\* the acceptor's answer to a rejected connection
Is503(resps) ==
    /\ Len(resps) = 1
    /\ resps[1].code = 503
    /\ "Retry-After" \in resps[1].headers
    /\ resps[1].connection = "close"
    /\ "Keep-Alive" \notin resps[1].headers

(* ------------------------------- C1 ----------------------------------- *)
\* C1: the queue never holds more than MAX_QUEUE_SIZE connections, and the
\* acceptor never waits on it: every connection accept() has returned is
\* at once either enqueued (in the queue, or already taken by a worker) or
\* on the rejection path, and the acceptor is never in another state than
\* running its loop (or ended).
C1_QueueBounded ==
    /\ Len(connection_queue) <= MAX_QUEUE_SIZE
    /\ acceptor \in {"running", "crashed"}
    /\ \A c \in Conns :
         c <= accepted => (InQueue(c) \/ dequeues[c] > 0) # rejected[c]

C1_Witness ==
    /\ Len(connection_queue) = MAX_QUEUE_SIZE
    /\ \E c \in Conns : rejected[c]
    /\ \E c \in Conns : dequeues[c] > 0

(* ------------------------------- C2 ----------------------------------- *)
\* C2: a connection accepted while the queue is full is never in the
\* queue and never dequeued, held or read by a worker; the acceptor writes
\* it one response, a 503 with Retry-After and Connection: close, and then
\* closes it.
C2_RejectClosed ==
    \A c \in Conns :
      rejected[c] =>
        /\ ~InQueue(c)
        /\ dequeues[c] = 0
        /\ HeldBy(c) = {}
        /\ req[c] = NoRead
        /\ Is503(out[c].resps)
        /\ sock[c] = "closed"

\* What holds of the code: the same, but the acceptor closes the connection
\* only when the write of the 503 returns; when it raises, the socket is
\* released by the process ending.
C2_RejectedState ==
    \A c \in Conns :
      rejected[c] =>
        /\ ~InQueue(c)
        /\ dequeues[c] = 0
        /\ HeldBy(c) = {}
        /\ req[c] = NoRead
        /\ Is503(out[c].resps)
        /\ sock[c] = IF out[c].resps[1].sent THEN "closed" ELSE "reset"
        /\ ~out[c].resps[1].sent => acceptor = "crashed"

\* an accept on a full queue takes the rejection path
C2_FullRejects ==
    [][accepted' = accepted + 1 /\ Len(connection_queue) >= MAX_QUEUE_SIZE
         => rejected'[accepted'] /\ connection_queue' = connection_queue]_vars

C4_Exclusive ==
    /\ \A c \in Conns :
         /\ dequeues[c] <= 1
         /\ Cardinality(HeldBy(c)) <= 1
         /\ Cardinality({i \in 1..Len(connection_queue) :
                           connection_queue[i] = c}) <= 1
         /\ InQueue(c) => HeldBy(c) = {} /\ dequeues[c] = 0
         /\ HeldBy(c) # {} =>
              /\ dequeues[c] = 1
              /\ sock[c] = IF acceptor = "running" THEN "open" ELSE "reset"
         /\ req[c] # NoRead => dequeues[c] = 1
         /\ rejected[c] =>
              ~InQueue(c) /\ HeldBy(c) = {} /\ dequeues[c] = 0
                          /\ req[c] = NoRead
    /\ \A w \in Workers :
         /\ client_socket[w] \in Conns \cup {NoConn}
         /\ worker_pc[w] = "handling" <=> client_socket[w] # NoConn

C4_Witness ==
    /\ \E w1, w2 \in Workers :
         /\ w1 # w2
         /\ client_socket[w1] # NoConn
         /\ client_socket[w2] # NoConn
         /\ req[client_socket[w1]] # NoRead
    /\ \E c \in Conns : rejected[c]

(* ------------------------------- C5 ----------------------------------- *)
\* C5: every connection put in the queue is eventually taken by a worker
\* and eventually closed.
C5_NoLostWakeup ==
    \A c \in Conns :
      /\ InQueue(c) ~> dequeues[c] > 0
      /\ InQueue(c) ~> sock[c] = "closed"

\* What holds of the code: a queued connection is taken and closed unless
\* the main thread ends first.
C5_UnlessCrashed ==
    \A c \in Conns :
      /\ InQueue(c) ~> (dequeues[c] > 0 \/ acceptor = "crashed")
      /\ InQueue(c) ~> (sock[c] = "closed" \/ acceptor = "crashed")

(* ------------------------------- C6 ----------------------------------- *)
\* the last iteration on c met a failure: a request that does not parse,
\* bytes that do not decode, a failed recv or sendall, a directory opened
\* as a file, or a failed write of the upload
Failed(c) ==
    /\ req[c] # NoRead
    /\ \/ req[c].kind \in {"reset", "undecodable"}
       \/ /\ req[c].kind = "data"
          /\ \/ ~req[c].sep
             \/ Len(req[c].line) < 3
             \/ req[c].net # "ok"
             \/ out[c].exc # "none"
             \/ out[c].handler = "post" /\ StartsWithJson(req[c].ctype)
                  /\ req[c].json /\ ~req[c].persist

\* what the server knows of connection c
ConnState(c) == <<sock[c], req[c], out[c], request_count[c], budget[c]>>

\* C6: a failure while a connection is handled ends that connection only:
\* the connection is closed and released, no exception leaves
\* handle_connection, and all MAX_THREADS workers stay in their loop.
C6_FaultIsolation ==
    /\ \A w \in Workers : worker_pc[w] \in {"get", "handling"}
    /\ Cardinality({w \in Workers : worker_pc[w] # "exited"}) = MAX_THREADS
    /\ \A c \in Conns :
         Failed(c) =>
           /\ sock[c] \in {"closed", "reset"}
           /\ HeldBy(c) = {}
           /\ ~out[c].uncaught

\* What holds of the code: the workers survive every failure, and every
\* failure but a failed write of the upload closes the connection.
C6_WorkersSurvive ==
    /\ \A w \in Workers : worker_pc[w] \in {"get", "handling"}
    /\ \A c \in Conns :
         /\ ~out[c].uncaught
         /\ Failed(c) /\ (out[c].exc # "none" \/ req[c].net # "ok") =>
              sock[c] \in {"closed", "reset"} /\ HeldBy(c) = {}

\* no step of a running server changes the state of two connections
C6_Isolated ==
    [][acceptor' = "running" =>
         \A c, d \in Conns :
           c # d => ConnState(c)' = ConnState(c) \/ ConnState(d)' = ConnState(d)]_vars

(* ------------------------- one connection ----------------------------- *)
Parsed(r) == r # NoRead /\ r.kind = "data" /\ r.sep /\ Len(r.line) = 3
\* the requests handle_connection has read
Read(c) == req[c] # NoRead
\* the request was answered with exactly one response, which was written
Answered(c, codes) ==
    /\ Len(out[c].resps) = 1
    /\ out[c].resps[1].code \in codes
    /\ out[c].resps[1].sent

(* ------------------------------- C7 ----------------------------------- *)
\* a valid HTTP/1.1 request without Connection: close, served with 200/201
ValidPersistent(c) ==
    /\ Parsed(req[c])
    /\ req[c].line[3] = "HTTP/1.1"
    /\ Lower(req[c].connection) # "close"
    /\ req[c].host = HOST_PORT
    /\ Answered(c, {200, 201})

KeepAliveAnswer(c) ==
    /\ out[c].resps[1].connection = "keep-alive"
    /\ {"Connection", "Keep-Alive"} \subseteq out[c].resps[1].headers

\* C7 as stated: at any position in the connection's request sequence.
C7_Original == \A c \in Conns : ValidPersistent(c) => KeepAliveAnswer(c)

\* C7 amended: at every position but the last one the server reads, the
\* MAX_REQUESTS-th, whose response carries Connection: close.
C7_KeepAlive ==
    \A c \in Conns :
      ValidPersistent(c) =>
        IF request_count[c] < MAX_REQUESTS
        THEN KeepAliveAnswer(c) /\ out[c].next = "read"
        ELSE out[c].resps[1].connection = "close"

C7_Witness ==
    \E c \in Conns :
      /\ ValidPersistent(c)
      /\ request_count[c] = MAX_REQUESTS - 1
      /\ req[c].line[1] = "POST"
      /\ req[c].connection = Absent
      /\ KeepAliveAnswer(c)

(* ------------------------------- C8 ----------------------------------- *)
\* the request asked for a persistent connection and was answered
WantsKeepAlive(c) ==
    /\ Parsed(req[c])
    /\ req[c].line[3] = "HTTP/1.1"
    /\ req[c].connection \in {Absent, "keep-alive"}
    /\ Answered(c, {200, 201, 400, 403, 404, 405})

\* C8 as stated: the requests up to the 100th may keep the connection
\* alive; the request whose answer is forced to Connection: close, whatever
\* its headers, is the 101st.
C8_Original ==
    \A c \in Conns :
      ValidPersistent(c) /\ out[c].resps[1].connection = "close"
        => request_count[c] = MAX_REQUESTS + 1

\* C8 amended: it is the 100th request that closes the connection whatever
\* its headers: its responses carry Connection: close, the connection is
\* closed after it, and no 101st request is read.
C8_Cap ==
    \A c \in Conns :
      /\ request_count[c] <= MAX_REQUESTS
      /\ Read(c) /\ req[c].kind = "data" /\ request_count[c] = MAX_REQUESTS =>
           /\ ~out[c].keep
           /\ \A i \in 1..Len(out[c].resps) :
                out[c].resps[i].connection = "close"
           /\ out[c].next = "closed"
           /\ sock[c] = "closed"
           /\ HeldBy(c) = {}

C8_Witness ==
    \E c \in Conns :
      /\ WantsKeepAlive(c)
      /\ out[c].handler = "post"
      /\ request_count[c] = MAX_REQUESTS
      /\ budget[c] = 1
      /\ sock[c] = "closed"

(* ------------------------------- C9 ----------------------------------- *)
\* data that does not parse: no blank line, or a short request line
Unparseable(r) ==
    r # NoRead /\ r.kind = "data" /\ (~r.sep \/ Len(r.line) < 3)

\* C9: a request that does not parse is answered with a 400 and the
\* connection is closed.
C9_ParseError400 ==
    \A c \in Conns :
      Unparseable(req[c]) =>
        /\ Len(out[c].resps) >= 1
        /\ out[c].resps[1].code = 400
        /\ sock[c] = "closed"

\* What holds of the code: the answer is a 500 with Connection: close, and
\* the connection is closed.
C9_ParseError500 ==
    \A c \in Conns :
      Unparseable(req[c]) =>
        /\ Len(out[c].resps) = 1
        /\ out[c].resps[1].code = 500
        /\ out[c].resps[1].connection = "close"
        /\ sock[c] = "closed"

(* ------------------------------- C10 ---------------------------------- *)
\* C10: a parsed request without a Host header is answered with a 400 and
\* one with another Host than the server's with a 403, whatever the
\* method; neither reaches a route: no handler runs, no file is opened, no
\* upload is written and no 405 is sent.
C10_HostFirst ==
    \A c \in Conns :
      Parsed(req[c]) /\ req[c].host # HOST_PORT =>
        /\ Len(out[c].resps) >= 1
        /\ out[c].resps[1].code = IF req[c].host = Absent THEN 400 ELSE 403
        /\ out[c].handler = "none"
        /\ ~out[c].opened
        /\ ~out[c].stored
        /\ \A i \in 1..Len(out[c].resps) :
             out[c].resps[i].code \in {400, 403, 500}
        /\ req[c].net = "ok" => Len(out[c].resps) = 1

C10_Witness ==
    \E c \in Conns :
      /\ Parsed(req[c])
      /\ req[c].line[1] = "POST"
      /\ req[c].host = "evil.example:80"
      /\ Answered(c, {403})

(* ------------------------------- C11 ---------------------------------- *)
\* the request reached the method dispatch and its first answer is a 4xx
RoutingError(c) ==
    /\ Parsed(req[c])
    /\ out[c].handler # "none"
    /\ Len(out[c].resps) >= 1
    /\ out[c].resps[1].code \in {400, 403, 404, 405, 415}

\* C11: after a 4xx produced at or after routing (405, 403 for a path with
\* '..', 404, 415, 400 for invalid JSON) the connection is closed and no
\* further request is read, even when keep-alive was decided.
C11_RoutingErrorCloses ==
    \A c \in Conns :
      RoutingError(c) => out[c].next = "closed" /\ sock[c] = "closed"

\* What holds of the code: the loop goes on reading after such an answer
\* exactly when keep-alive was decided and the write did not raise.
C11_RoutingErrorFollowsDecision ==
    \A c \in Conns :
      RoutingError(c) =>
        /\ out[c].next = "read" <=> out[c].keep /\ out[c].exc = "none"
        /\ out[c].next = "closed" => sock[c] = "closed"
        /\ out[c].handler \in {"get", "post"} =>
             out[c].resps[1].connection = "close"

(* ------------------------------- C12 ---------------------------------- *)
\* a 500 was written on c during the last iteration
Sent500(c) ==
    \E i \in 1..Len(out[c].resps) :
      out[c].resps[i].code = 500 /\ out[c].resps[i].sent

\* C12: every 500 carries Connection: close and is followed by closing the
\* connection; no further request is read after it.
C12_ServerErrorCloses ==
    \A c \in Conns :
      /\ \A i \in 1..Len(out[c].resps) :
           out[c].resps[i].code = 500 => out[c].resps[i].connection = "close"
      /\ Sent500(c) =>
           /\ out[c].next = "closed"
           /\ sock[c] = "closed"
           /\ HeldBy(c) = {}

\* What holds of the code: every 500 carries Connection: close, and the
\* 500 of the request loop's except clause closes the connection.
C12_LoopErrorCloses ==
    \A c \in Conns :
      /\ \A i \in 1..Len(out[c].resps) :
           out[c].resps[i].code = 500 => out[c].resps[i].connection = "close"
      /\ Sent500(c) /\ out[c].handler # "post" =>
           out[c].next = "closed" /\ sock[c] = "closed" /\ HeldBy(c) = {}

(* ------------------------------- C13 ---------------------------------- *)
\* C13: when recv() times out or returns no bytes, nothing is written for
\* that wait and the connection is closed and released, on a fresh
\* connection as on one kept alive by earlier requests.
C13_SilentClose ==
    \A c \in Conns :
      Read(c) /\ req[c].kind \in {"empty", "timeout"} =>
        /\ out[c].resps = <<>>
        /\ out[c].next = "closed"
        /\ ~out[c].uncaught
        /\ sock[c] = "closed"
        /\ HeldBy(c) = {}

\* the idle timeout on a connection that an earlier request kept alive
C13_Witness ==
    \E c \in Conns :
      /\ Read(c) /\ req[c].kind = "timeout"
      /\ request_count[c] >= 1
      /\ out[c].resps = <<>>
      /\ sock[c] = "closed"

(* ------------------------------- C14 ---------------------------------- *)
\* a GET with the server's Host that reached serve_get_request
RoutedGet(c) ==
    /\ Parsed(req[c])
    /\ req[c].host = HOST_PORT
    /\ req[c].line[1] = "GET"

\* C14: a GET with a valid Host whose path contains '..' is answered with
\* a 403 and the file is never opened.
C14_TraversalForbidden ==
    \A c \in Conns :
      RoutedGet(c) /\ req[c].line[2] = "/../secret.txt" =>
        /\ out[c].handler = "get"
        /\ ~out[c].opened
        /\ Len(out[c].resps) >= 1
        /\ out[c].resps[1].code = 403
        /\ \A i \in 1..Len(out[c].resps) :
             out[c].resps[i].code \in {403, 500}
        /\ req[c].net = "ok" => Answered(c, {403})

C14_Witness ==
    \E c \in Conns :
      /\ RoutedGet(c)
      /\ req[c].line[2] = "/../secret.txt"
      /\ Answered(c, {403})
      /\ ~out[c].opened

(* ------------------------------- C15 ---------------------------------- *)
SupportedExtensions == {".html", ".txt", ".png", ".jpg", ".jpeg"}

\* the path serve_get_request opens
Resolved(path) == IF path = "/" THEN "/index.html" ELSE path

\* C15: a GET with a valid Host and no '..' whose path has another
\* extension than the supported ones is answered with a 415 without the
\* file being opened, whether or not it exists; a 404 is only given for a
\* supported extension.
C15_UnsupportedExtension415 ==
    \A c \in Conns :
      RoutedGet(c) /\ ~HasDotDot(req[c].line[2]) /\ Len(out[c].resps) >= 1 =>
        /\ Extension(Resolved(req[c].line[2])) \notin SupportedExtensions =>
             out[c].resps[1].code = 415 /\ ~out[c].opened
        /\ out[c].resps[1].code = 404 =>
             Extension(Resolved(req[c].line[2])) \in SupportedExtensions

\* What holds of the code: the file is opened first; a 415 is given for an
\* existing file with an unsupported extension and a 404 for every missing
\* file, whatever its extension.
C15_OpenedFirst ==
    \A c \in Conns :
      RoutedGet(c) /\ ~HasDotDot(req[c].line[2]) /\ Len(out[c].resps) >= 1 =>
        /\ out[c].opened
        /\ out[c].resps[1].code = 415 <=>
             /\ Resolved(req[c].line[2]) \in Files
             /\ Extension(Resolved(req[c].line[2])) \notin SupportedExtensions
        /\ out[c].resps[1].code = 404 <=>
             Resolved(req[c].line[2]) \notin Files \cup Dirs

(* ------------------------------- C16 ---------------------------------- *)
\* the last request on c was a JSON upload answered with a 201
Created(c) ==
    /\ Parsed(req[c])
    /\ out[c].handler = "post"
    /\ Answered(c, {201})

\* C16: a POST with Content-Type application/json and a valid JSON body
\* is answered 201 with the filepath of the stored upload, and no
\* successful POST returns a filepath an earlier upload was stored under.
C16_UniqueFilepaths ==
    [][\A c \in Conns :
         budget'[c] < budget[c] /\ Created(c)' =>
           /\ out'[c].filepath # NoFile
           /\ out'[c].filepath \in uploads'
           /\ out'[c].filepath \notin uploads]_vars

\* What holds of the code: the 201 names the file the upload was written
\* to, which is fixed by the second of the clock and the random id; an
\* upload with another second or another id goes to another file.
C16_StoredUnderName ==
    [][\A c \in Conns :
         budget'[c] < budget[c] /\ Created(c)' =>
           /\ out'[c].filepath = upload_filepath(now, req'[c].rand)
           /\ out'[c].filepath \in uploads'
           /\ \A f \in uploads :
                f[2] # now \/ f[4] # req'[c].rand => f # out'[c].filepath]_vars

(* ------------------------------- C17 ---------------------------------- *)
\* exactly one Connection variant: close, or keep-alive with Keep-Alive
OneConnectionVariant(resp) ==
    /\ "Connection" \in resp.headers
    /\ resp.connection \in {"close", "keep-alive"}
    /\ "Keep-Alive" \in resp.headers <=> resp.connection = "keep-alive"

\* C17: every response carries Content-Type, Content-Length, Date and
\* Server, and exactly one Connection variant.
C17_RequiredHeaders ==
    \A c \in Conns :
      \A i \in 1..Len(out[c].resps) :
        /\ {"Content-Type", "Content-Length", "Date", "Server"}
             \subseteq out[c].resps[i].headers
        /\ OneConnectionVariant(out[c].resps[i])

\* What holds of the code: every response carries Content-Type,
\* Content-Length and one Connection variant; Date and Server are carried
\* by the 200 and the 201 only.
C17_ErrorsLackDateServer ==
    \A c \in Conns :
      \A i \in 1..Len(out[c].resps) :
        /\ {"Content-Type", "Content-Length"} \subseteq out[c].resps[i].headers
        /\ OneConnectionVariant(out[c].resps[i])
        /\ "Date" \in out[c].resps[i].headers
             <=> out[c].resps[i].code \in {200, 201}
        /\ "Server" \in out[c].resps[i].headers
             <=> out[c].resps[i].code \in {200, 201}

C19_HeaderAgrees ==
    \A c \in Conns :
      \A i \in 1..Len(out[c].resps) :
        out[c].resps[i].sent =>
          IF out[c].resps[i].connection = "close"
          THEN out[c].next = "closed" /\ sock[c] = "closed"
          ELSE out[c].next = "read" /\ sock[c] = "open" /\ HeldBy(c) # {}

\* What holds of the code: a response with Connection: keep-alive is
\* followed by another read, and so is one with Connection: close that
\* serve_get_request or serve_post_request wrote for a request on which
\* keep-alive was decided.
C19_FollowsDecision ==
    \A c \in Conns :
      \A i \in 1..Len(out[c].resps) :
        out[c].resps[i].sent =>
          /\ out[c].resps[i].connection = "keep-alive" =>
               out[c].next = "read" /\ sock[c] = "open" /\ HeldBy(c) # {}
          /\ out[c].resps[i].connection = "close" /\ out[c].next = "read" =>
               out[c].keep /\ out[c].handler \in {"get", "post"}
                           /\ out[c].resps[i].code \in {400, 403, 404, 415, 500}

(* ------------------------------- C20 ---------------------------------- *)
\* C20: the acceptor survives every rejection: after any accepts, enqueues
\* and rejections the acceptor is running, and a rejected connection is
\* closed even when the write of its 503 failed.
C20_AcceptorSurvives ==
    /\ acceptor = "running"
    /\ \A c \in Conns :
         rejected[c] /\ ~out[c].resps[1].sent => sock[c] = "closed"

\* What holds of the code: the acceptor keeps running as long as every 503
\* it wrote was delivered.
C20_SurvivesDelivered ==
    (\A c \in Conns : rejected[c] => out[c].resps[1].sent)
      => acceptor = "running"

=============================================================================
